---- MODULE Spec2Model ----
(***************************************************************************)
(* A model of pdf_attachments.py: the attachment enumeration (list / get)  *)
(* and the add operation, as one run of the tool against a small file      *)
(* system.  A PDF document is abstracted to what the code reads of it: the *)
(* catalog's /Names/EmbeddedFiles/Names pairs and each page's /Annots.     *)
(* The pypdf calls (PdfReader, get_data, PdfWriter.add_attachment, write)  *)
(* are modelled at their call sites by what they do to that abstraction.   *)
(***************************************************************************)
EXTENDS Integers, Sequences, FiniteSets, TLC

VARIABLES
    fs,      \* path -> file: the PDF files on disk
    pre,     \* the file system as it was when the run started
    pc,      \* "start" | "writing" | "done": the position of the run
    call,    \* the operation invoked and its arguments
    result,  \* what the operation returned or raised
    writer   \* the PdfWriter's document while the output is being written

vars == <<fs, pre, pc, call, result, writer>>

---------------------------------------------------------------------------
(* Optional values (Python's None / a missing dictionary key).             *)

None == <<>>
Some(x) == <<x>>

---------------------------------------------------------------------------
(* Bounds of the model.                                                    *)

MaxFiles == 2      \* input files per add call
MaxExisting == 2   \* attachments of a document that add starts from
MaxAtts == 3       \* attachments and annotations of a document that is read
MaxTokens == 1     \* --name options per cmd_add call

---------------------------------------------------------------------------
(* Streams and their decoding (pypdf's get_data).                          *)

\* A length-prefixed stand-in for deflate: the first byte is the payload length.
Deflate(d) == <<Len(d)>> \o d

Inflate(raw) ==
    IF Len(raw) > 0 /\ raw[1] = Len(raw) - 1
    THEN [ok |-> TRUE, data |-> Tail(raw)]
    ELSE [ok |-> FALSE, data |-> <<>>]

\* An embedded-file stream: its declared filter, raw bytes and /Params/Size.
StreamObject(filter, raw, size) == [Filter |-> filter, raw |-> raw, Size |-> size]

\* obj.get_data(): the raw bytes without a filter, the inflated bytes under
\* /FlateDecode, and an exception for a filter that cannot be decoded.
get_data(obj) ==
    CASE obj.Filter = "none" -> [ok |-> TRUE, data |-> obj.raw]
      [] obj.Filter = "/FlateDecode" -> Inflate(obj.raw)
      [] OTHER -> [ok |-> FALSE, data |-> <<>>]

\* A plausible slip: the decoded length is tried first and the declared
\* size is the fallback.
_stream_size_decoded_first(ef) ==
    IF ef = None THEN None
    ELSE LET obj == ef[1] IN
         IF get_data(obj).ok THEN Some(Len(get_data(obj).data))
         ELSE obj.Size

\* _stream_size(ef): ef is the value of ef.get("/F"), None or a stream.
_stream_size(ef) ==
    IF ef = None THEN None
    ELSE LET obj == ef[1] IN
         IF obj.Size # None THEN obj.Size
         ELSE IF get_data(obj).ok THEN Some(Len(get_data(obj).data))
         ELSE None

\* _stream_data(ef): raised is TRUE for CorruptAttachmentError.
_stream_data(ef) ==
    IF ef = None THEN [raised |-> FALSE, data |-> None]
    ELSE IF get_data(ef[1]).ok
         THEN [raised |-> FALSE, data |-> Some(get_data(ef[1]).data)]
         ELSE [raised |-> TRUE, data |-> None]

---------------------------------------------------------------------------
(* File specifications, annotations, documents.                            *)

\* A file specification dictionary: /F, /UF, /EF./F (the stream), /Desc.
FileSpec(f, uf, ef, desc) == [F |-> f, UF |-> uf, EF |-> ef, Desc |-> desc]

\* An entry of a page's /Annots: /Subtype, /FS, /Contents.
Annot(subtype, filespec, contents) ==
    [Subtype |-> subtype, FS |-> filespec, Contents |-> contents]

\* A document: the name tree's (name, file specification) pairs and the pages.
Document(names, pages) == [Names |-> names, pages |-> pages]

EmptyDoc == Document(<<>>, <<>>)

Attachment(name, size, description, page, data) ==
    [name |-> name, size |-> size, description |-> description,
     page |-> page, data |-> data]

OrElse(opt, default) == IF opt = None THEN default ELSE opt[1]

\* The Attachment built for the name-tree pair `e` (lines 97-106).
DocumentAttachment(e, with_data) ==
    Attachment(e.name,
               _stream_size(e.spec.EF),
               OrElse(e.spec.Desc, ""),
               None,
               IF with_data THEN _stream_data(e.spec.EF).data ELSE None)

\* _get_document_attachments: the list, or raised when a stream read for its
\* data cannot be decoded.
_get_document_attachments(doc, with_data) ==
    [raised |-> with_data /\ \E i \in 1..Len(doc.Names) :
                    _stream_data(doc.Names[i].spec.EF).raised,
     atts |-> [i \in 1..Len(doc.Names) |-> DocumentAttachment(doc.Names[i], with_data)]]

\* annot.get("/FS", {}).get("/EF", {}).get("/F")
AnnotEF(annot) == IF annot.FS = None THEN None ELSE annot.FS[1].EF

\* fs.get("/F", fs.get("/UF", "unknown"))
AnnotName(annot) ==
    IF annot.FS = None THEN "unknown"
    ELSE OrElse(annot.FS[1].F, OrElse(annot.FS[1].UF, "unknown"))

\* fs.get("/Desc", annot.get("/Contents", ""))
AnnotDescription(annot) ==
    LET fallback == OrElse(annot.Contents, "") IN
    IF annot.FS = None THEN fallback ELSE OrElse(annot.FS[1].Desc, fallback)

\* The Attachment built for a /FileAttachment annotation (lines 118-130).
PageAttachment(annot, page_num, with_data) ==
    Attachment(AnnotName(annot),
               _stream_size(AnnotEF(annot)),
               AnnotDescription(annot),
               Some(page_num),
               IF with_data THEN _stream_data(AnnotEF(annot)).data ELSE None)

IsFileAttachment(annot) == annot.Subtype = "/FileAttachment"

RECURSIVE AnnotsAttachments(_, _, _)
\* The inner loop over one page's /Annots, in array order.
AnnotsAttachments(annots, page_num, with_data) ==
    IF annots = <<>> THEN <<>>
    ELSE (IF IsFileAttachment(Head(annots))
          THEN <<PageAttachment(Head(annots), page_num, with_data)>>
          ELSE <<>>)
         \o AnnotsAttachments(Tail(annots), page_num, with_data)

RECURSIVE PagesAttachments(_, _, _)
\* The outer loop, enumerate(reader.pages, 1), from page `page_num` on.
PagesAttachments(pages, page_num, with_data) ==
    IF page_num > Len(pages) THEN <<>>
    ELSE AnnotsAttachments(pages[page_num], page_num, with_data)
         \o PagesAttachments(pages, page_num + 1, with_data)

_get_page_attachments(doc, with_data) ==
    [raised |-> with_data /\ \E p \in 1..Len(doc.pages) :
                    \E i \in 1..Len(doc.pages[p]) :
                        /\ IsFileAttachment(doc.pages[p][i])
                        /\ _stream_data(AnnotEF(doc.pages[p][i])).raised,
     atts |-> PagesAttachments(doc.pages, 1, with_data)]

---------------------------------------------------------------------------
(* Files on disk.                                                          *)

PdfPaths == {"in.pdf", "out.pdf"}

Absent == [kind |-> "absent", doc |-> EmptyDoc]
Partial == [kind |-> "partial", doc |-> EmptyDoc]   \* truncated: not a PDF
PdfFile(doc) == [kind |-> "pdf", doc |-> doc]

\* PdfReader(pdf_path) succeeds on a complete PDF file only.
Readable(fsys, path) == fsys[path].kind = "pdf"

---------------------------------------------------------------------------
(* Results: one record shape for every operation.                          *)
(*   err    "none", or the kind of exception / CLI error                   *)
(*   names  the names an error message lists                               *)
(*   paths  the source paths an error message lists                        *)
(*   count  add_attachment's return value                                  *)
(*   atts   list_attachments' list; get_attachment's result (<<>>: None)   *)
(*   exit   the CLI exit code                                              *)

Result(err, names, paths, count, atts, exit) ==
    [err |-> err, names |-> names, paths |-> paths, count |-> count,
     atts |-> atts, exit |-> exit]

Ok(count, atts) == Result("none", <<>>, <<>>, count, atts, 0)
Raise(err, names, paths) == Result(err, names, paths, 0, <<>>, 1)

NoResult == Result("pending", <<>>, <<>>, 0, <<>>, 0)

---------------------------------------------------------------------------
(* Public API, read side.                                                  *)

\* A plausible slip: the listing decodes every stream as get_attachment does.
list_attachments_with_data(fsys, pdf_path) ==
    IF ~Readable(fsys, pdf_path) THEN Raise("unreadable", <<>>, <<>>)
    ELSE LET doc == fsys[pdf_path].doc
             d == _get_document_attachments(doc, TRUE)
             p == _get_page_attachments(doc, TRUE)
         IN IF d.raised \/ p.raised THEN Raise("corrupt", <<>>, <<>>)
            ELSE Ok(0, d.atts \o p.atts)

list_attachments(fsys, pdf_path) ==
    IF ~Readable(fsys, pdf_path) THEN Raise("unreadable", <<>>, <<>>)
    ELSE LET doc == fsys[pdf_path].doc
             d == _get_document_attachments(doc, FALSE)
             p == _get_page_attachments(doc, FALSE)
         IN IF d.raised \/ p.raised THEN Raise("corrupt", <<>>, <<>>)
            ELSE Ok(0, d.atts \o p.atts)

RECURSIVE FirstNamed(_, _)
\* for att in all_attachments: if att.name == name: return att
FirstNamed(atts, name) ==
    IF atts = <<>> THEN <<>>
    ELSE IF Head(atts).name = name THEN <<Head(atts)>>
    ELSE FirstNamed(Tail(atts), name)

get_attachment(fsys, pdf_path, name) ==
    IF ~Readable(fsys, pdf_path) THEN Raise("unreadable", <<>>, <<>>)
    ELSE LET doc == fsys[pdf_path].doc
             d == _get_document_attachments(doc, TRUE)
             p == _get_page_attachments(doc, TRUE)
         IN IF d.raised \/ p.raised THEN Raise("corrupt", <<>>, <<>>)
            ELSE Ok(0, FirstNamed(d.atts \o p.atts, name))

---------------------------------------------------------------------------
(* Input files: a Path is a directory and a file name (Path.name).         *)

Path(dir, name) == [dir |-> dir, name |-> name]

\* The files that exist on disk, and what read_bytes() returns for each.
DiskFiles == {Path("a", "x.txt"), Path("b", "x.txt"), Path("a", "y.txt")}

read_bytes(file) ==
    CASE file = Path("a", "x.txt") -> <<0, 255>>
      [] file = Path("b", "x.txt") -> <<>>
      [] OTHER -> <<255, 0>>

\* A path that names no file.
GhostFile == Path("a", "ghost.txt")

is_file(file) == file \in DiskFiles

---------------------------------------------------------------------------
(* add_attachment.                                                         *)

\* renames.get(file.name, file.name)
ResolveName(renames, name) ==
    IF name \in DOMAIN renames THEN renames[name] ELSE name

\* resolved: list[tuple[Path, str]] (lines 179-181)
Resolved(files, renames) ==
    [i \in 1..Len(files) |->
        [file |-> files[i], name |-> ResolveName(renames, files[i].name)]]

Min(S) == CHOOSE x \in S : \A y \in S : x <= y

\* A plausible slip: the duplicate check compares the files' own names.
SeenBeforeByFileName(resolved) ==
    {j \in 1..Len(resolved) :
        \E i \in 1..(j - 1) : resolved[i].file.name = resolved[j].file.name}

\* The positions at which the loop of lines 185-192 finds `name in seen`.
SeenBefore(resolved) ==
    {j \in 1..Len(resolved) :
        \E i \in 1..(j - 1) : resolved[i].name = resolved[j].name}

\* The ValueError of lines 187-191: the name, the file at hand, seen[name].
DuplicateError(resolved) ==
    LET j == Min(SeenBefore(resolved))
        i == Min({k \in 1..(j - 1) : resolved[k].name = resolved[j].name})
    IN Raise("duplicate", <<resolved[j].name>>,
             <<resolved[j].file, resolved[i].file>>)

ResolvedNames(resolved) == [i \in 1..Len(resolved) |-> resolved[i].name]

\* A plausible slip: only the document-level names count as existing.
ExistingNamesDocumentOnly(atts) ==
    {atts[i].name : i \in {j \in 1..Len(atts) : atts[j].page = None}}

\* existing = {a.name for a in list_attachments(pdf_path)}
ExistingNames(atts) == {atts[i].name : i \in 1..Len(atts)}

\* A plausible slip: only the first colliding name is reported.
CollisionsFirstOnly(resolved, existing) ==
    LET InExisting(n) == n \in existing
        all == SelectSeq([i \in 1..Len(resolved) |-> resolved[i].name], InExisting)
    IN IF all = <<>> THEN <<>> ELSE <<all[1]>>

\* collisions = [name for _, name in resolved if name in existing]
Collisions(resolved, existing) ==
    LET InExisting(n) == n \in existing
    IN SelectSeq(ResolvedNames(resolved), InExisting)

\* A plausible slip: the new pair is put at the front of the /Names array.
writer_add_attachment_in_front(doc, name, data) ==
    Document(<<[name |-> name,
                spec |-> FileSpec(Some(name), None,
                                  Some(StreamObject("none", data, None)), None)]>>
             \o doc.Names,
             doc.pages)

\* writer.add_attachment(name, data): a new uncompressed stream and its file
\* specification, appended to the name tree's /Names array.
writer_add_attachment(doc, name, data) ==
    Document(Append(doc.Names,
                    [name |-> name,
                     spec |-> FileSpec(Some(name), None,
                                       Some(StreamObject("none", data, None)),
                                       None)]),
             doc.pages)

RECURSIVE AddAll(_, _, _)
\* for file, name in resolved: writer.add_attachment(name, file.read_bytes())
AddAll(doc, resolved, i) ==
    IF i > Len(resolved) THEN doc
    ELSE AddAll(writer_add_attachment(doc, resolved[i].name,
                                      read_bytes(resolved[i].file)),
                resolved, i + 1)

\* Lines 176-206: validation, then the clone with the new attachments.
\* raised is FALSE when the function reaches open(output_path, "wb").
add_attachment(fsys, pdf_path, files, renames) ==
    LET resolved == Resolved(files, renames)
        listed == list_attachments(fsys, pdf_path)
        collisions == Collisions(resolved, ExistingNames(listed.atts))
    IN IF SeenBefore(resolved) # {}
       THEN [raised |-> TRUE, error |-> DuplicateError(resolved), doc |-> EmptyDoc]
       ELSE IF listed.err # "none"
       THEN [raised |-> TRUE, error |-> listed, doc |-> EmptyDoc]
       ELSE IF collisions # <<>>
       THEN [raised |-> TRUE, error |-> Raise("exists", collisions, <<>>),
             doc |-> EmptyDoc]
       ELSE IF \E i \in 1..Len(files) : ~is_file(files[i])
       THEN [raised |-> TRUE, error |-> Raise("file_unreadable", <<>>, <<>>),
             doc |-> EmptyDoc]
       ELSE [raised |-> FALSE, error |-> NoResult,
             doc |-> AddAll(fsys[pdf_path].doc, resolved, 1)]

---------------------------------------------------------------------------
(* The call record: one shape for every operation.                         *)

Call(op, pdf, out, files, renames, name, output, in_place, tokens) ==
    [op |-> op, pdf |-> pdf, out |-> out, files |-> files, renames |-> renames,
     name |-> name, output |-> output, in_place |-> in_place, tokens |-> tokens]

NoRenames == [k \in {} |-> ""]

NoCall == Call("none", "in.pdf", "in.pdf", <<>>, NoRenames, "", None, FALSE, <<>>)

---------------------------------------------------------------------------
(* Actions.                                                                *)

\* A plausible slip: the destination is opened before the validation.
AddStepOpenFirst(pdf_path, files, output_path, renames) ==
    LET r == add_attachment(fs, pdf_path, files, renames) IN
    /\ fs' = [fs EXCEPT ![output_path] = Partial]
    /\ IF r.raised
       THEN result' = r.error /\ pc' = "done" /\ UNCHANGED writer
       ELSE writer' = r.doc /\ pc' = "writing" /\ UNCHANGED result

\* A plausible slip: the result is written over the path that was read.
AddStepToSource(pdf_path, files, output_path, renames) ==
    LET r == add_attachment(fs, pdf_path, files, renames) IN
    IF r.raised
    THEN /\ result' = r.error
         /\ pc' = "done"
         /\ UNCHANGED <<fs, writer>>
    ELSE /\ writer' = r.doc
         /\ fs' = [fs EXCEPT ![pdf_path] = Partial]
         /\ pc' = "writing"
         /\ UNCHANGED result

\* add_attachment up to and including open(output_path, "wb"), which
\* truncates the destination; a validation error ends the run before it.
AddStep(pdf_path, files, output_path, renames) ==
    LET r == add_attachment(fs, pdf_path, files, renames) IN
    IF r.raised
    THEN /\ result' = r.error
         /\ pc' = "done"
         /\ UNCHANGED <<fs, writer>>
    ELSE /\ writer' = r.doc
         /\ fs' = [fs EXCEPT ![output_path] = Partial]
         /\ pc' = "writing"
         /\ UNCHANGED result

AddAttachment(pdf_path, files, output_path, renames) ==
    /\ pc = "start"
    /\ call' = Call("add", pdf_path, output_path, files, renames, "",
                    None, FALSE, <<>>)
    /\ AddStep(pdf_path, files, output_path, renames)
    /\ UNCHANGED pre

\* writer.write(f) runs to completion; add_attachment returns len(files).
WriteDone ==
    /\ pc = "writing"
    /\ fs' = [fs EXCEPT ![call.out] = PdfFile(writer)]
    /\ result' = Ok(Len(call.files), <<>>)
    /\ pc' = "done"
    /\ UNCHANGED <<pre, call, writer>>

\* writer.write(f) fails part-way (an OSError such as a full disk): the
\* exception leaves the truncated file behind.
WriteFail ==
    /\ pc = "writing"
    /\ result' = Raise("write", <<>>, <<>>)
    /\ pc' = "done"
    /\ UNCHANGED <<fs, pre, call, writer>>

ListAttachments(pdf_path) ==
    /\ pc = "start"
    /\ call' = Call("list", pdf_path, pdf_path, <<>>, NoRenames, "",
                    None, FALSE, <<>>)
    /\ result' = list_attachments(fs, pdf_path)
    /\ pc' = "done"
    /\ UNCHANGED <<fs, pre, writer>>

GetAttachment(pdf_path, name) ==
    /\ pc = "start"
    /\ call' = Call("get", pdf_path, pdf_path, <<>>, NoRenames, name,
                    None, FALSE, <<>>)
    /\ result' = get_attachment(fs, pdf_path, name)
    /\ pc' = "done"
    /\ UNCHANGED <<fs, pre, writer>>

---------------------------------------------------------------------------
(* The add command.                                                        *)

\* A --name option is a sequence of pieces of text, ":" being the separator
\* character; the options drawn below have at most one piece on either side.
HasColon(item) == \E i \in 1..Len(item) : item[i] = ":"

\* old, new = item.split(":", 1)
SplitAt(item) == Min({i \in 1..Len(item) : item[i] = ":"})
OldPart(item) == SubSeq(item, 1, SplitAt(item) - 1)
NewPart(item) == SubSeq(item, SplitAt(item) + 1, Len(item))

\* renames[old] = new
SetItem(renames, old, new) ==
    [k \in DOMAIN renames \cup {old} |-> IF k = old THEN new ELSE renames[k]]

RECURSIVE ParseRenamesFrom(_, _, _)
\* The loop of lines 317-332 from item i on.
ParseRenamesFrom(raw, i, renames) ==
    IF i > Len(raw) THEN [error |-> NoResult, renames |-> renames]
    ELSE IF ~HasColon(raw[i])
    THEN [error |-> Raise("name_format", <<>>, <<>>), renames |-> NoRenames]
    ELSE IF OldPart(raw[i]) = <<>> \/ NewPart(raw[i]) = <<>>
    THEN [error |-> Raise("name_empty", <<>>, <<>>), renames |-> NoRenames]
    ELSE ParseRenamesFrom(raw, i + 1,
                          SetItem(renames, OldPart(raw[i])[1], NewPart(raw[i])[1]))

_parse_renames(raw) ==
    IF raw = <<>> THEN [error |-> NoResult, renames |-> NoRenames]
    ELSE ParseRenamesFrom(raw, 1, NoRenames)

\* sorted(unknown): the names in lexicographic order.
NameOrder == <<"q.txt", "x.txt", "y.txt", "z.txt">>

Sorted(S) == LET InS(n) == n \in S IN SelectSeq(NameOrder, InS)

\* out = str(output) if output else str(pdf)
OutPath(pdf, output) == IF output # None THEN output[1] ELSE pdf

\* A plausible slip: without a destination the command falls back to in-place.
DestinationErrorBothOnly(output, in_place) ==
    IF output # None /\ in_place
    THEN Raise("mutually_exclusive", <<>>, <<>>)
    ELSE NoResult

\* Lines 397-406: exactly one of --output and --in-place.
DestinationError(output, in_place) ==
    IF output # None /\ in_place
    THEN Raise("mutually_exclusive", <<>>, <<>>)
    ELSE IF output = None /\ ~in_place
    THEN Raise("no_destination", <<>>, <<>>)
    ELSE NoResult

\* A plausible slip: rename keys that name no input file are ignored, as
\* renames.get() would ignore them.
cmd_add_checks_unknown_ignored(fsys, pdf, files, output, in_place, name) ==
    LET parsed == _parse_renames(name)
    IN IF fsys[pdf].kind = "absent"
       THEN Raise("pdf_not_found", <<>>, <<>>)
       ELSE IF \E i \in 1..Len(files) : ~is_file(files[i])
       THEN Raise("file_not_found", <<>>,
                  <<files[Min({i \in 1..Len(files) : ~is_file(files[i])})]>>)
       ELSE IF parsed.error.err # "pending" THEN parsed.error
       ELSE DestinationError(output, in_place)

\* Lines 376-406: the error cmd_add exits with before it calls
\* add_attachment, or NoResult (err "pending") when it goes on to call it.
cmd_add_checks(fsys, pdf, files, output, in_place, name) ==
    LET parsed == _parse_renames(name)
        input_names == {files[i].name : i \in 1..Len(files)}
        unknown == (DOMAIN parsed.renames) \ input_names
    IN IF fsys[pdf].kind = "absent"
       THEN Raise("pdf_not_found", <<>>, <<>>)
       ELSE IF \E i \in 1..Len(files) : ~is_file(files[i])
       THEN Raise("file_not_found", <<>>,
                  <<files[Min({i \in 1..Len(files) : ~is_file(files[i])})]>>)
       ELSE IF parsed.error.err # "pending" THEN parsed.error
       ELSE IF unknown # {} THEN Raise("unknown_key", Sorted(unknown), <<>>)
       ELSE DestinationError(output, in_place)

CmdAdd(pdf, files, output, in_place, name) ==
    /\ pc = "start"
    /\ call' = Call("cmd_add", pdf, OutPath(pdf, output), files,
                    _parse_renames(name).renames, "", output, in_place, name)
    /\ LET early == cmd_add_checks(fs, pdf, files, output, in_place, name) IN
       IF early.err # "pending"
       THEN /\ result' = early
            /\ pc' = "done"
            /\ UNCHANGED <<fs, writer>>
       ELSE AddStep(pdf, files, OutPath(pdf, output), _parse_renames(name).renames)
    /\ UNCHANGED pre

---------------------------------------------------------------------------
(* The inputs the specifications draw from.                                *)

SeqsUpTo(S, n) == UNION {[1..k -> S] : k \in 0..n}

Names == {"x.txt", "y.txt", "z.txt"}

\* renames: every map from some of the input file names to a name.
RenameMaps == UNION {[D -> Names] : D \in SUBSET {"x.txt", "y.txt"}}

\* --name options: well-formed ones (one with a key that is no input file),
\* one without a separator, and one with each half empty.
NameOptions ==
    {<<old, ":", new>> : old \in {"x.txt", "q.txt"}, new \in {"y.txt", "z.txt"}}
    \cup {<<"x.txt">>, <<":", "z.txt">>, <<"x.txt", ":">>}

\* --output: not given, or a path.
OutputOptions == {None} \cup {Some(p) : p \in PdfPaths}

\* Embedded-file streams: sound ones, undecodable ones, and declared sizes
\* that do or do not agree with the data.
PlainStream == StreamObject("none", <<0, 255>>, None)
FlateStream == StreamObject("/FlateDecode", Deflate(<<255>>), None)
BadFlateStream == StreamObject("/FlateDecode", <<255>>, None)
UnsupportedStream == StreamObject("/Unsupported", <<0>>, None)
UnsupportedSizedStream == StreamObject("/Unsupported", <<0>>, Some(2))
MisSizedStream == StreamObject("none", <<0>>, Some(2))

\* One attachment-bearing item of a document: a name-tree pair (page 0) or
\* an annotation of page 1 or 2.
Item(page, key, annot) == [page |-> page, key |-> key, annot |-> annot]

NameTreeItem(key, ef, desc) ==
    Item(0, key, Annot("", Some(FileSpec(Some(key), None, ef, desc)), None))

\* The document made of a sequence of items, each kept in sequence order.
DocOf(items) ==
    LET OnPage(p) == LET At(it) == it.page = p IN SelectSeq(items, At)
        pairs == OnPage(0)
    IN Document([i \in 1..Len(pairs) |->
                    [name |-> pairs[i].key, spec |-> pairs[i].annot.FS[1]]],
                [p \in 1..2 |-> [i \in 1..Len(OnPage(p)) |-> OnPage(p)[i].annot]])

\* The items of the documents that add starts from.
AddItems ==
    {NameTreeItem("x.txt", Some(PlainStream), None),
     NameTreeItem("z.txt", Some(UnsupportedStream), None),
     Item(1, "", Annot("/FileAttachment",
                       Some(FileSpec(Some("y.txt"), None, Some(PlainStream), None)),
                       None))}

AddDocs == {DocOf(items) : items \in SeqsUpTo(AddItems, MaxExisting)}

\* The items of the documents that list and get read.
ReadItems ==
    {NameTreeItem("x.txt", Some(PlainStream), Some("d")),
     NameTreeItem("x.txt", Some(FlateStream), None),
     NameTreeItem("y.txt", Some(UnsupportedStream), Some("e")),
     NameTreeItem("y.txt", Some(UnsupportedSizedStream), None),
     NameTreeItem("z.txt", Some(MisSizedStream), None),
     NameTreeItem("z.txt", None, None)}
    \cup UNION {
        {Item(p, "", Annot("/FileAttachment",
                           Some(FileSpec(Some("x.txt"), Some("u.txt"),
                                         Some(PlainStream), None)),
                           Some("c"))),
         Item(p, "", Annot("/FileAttachment",
                           Some(FileSpec(None, Some("y.txt"),
                                         Some(BadFlateStream), Some("f"))),
                           None)),
         Item(p, "", Annot("/FileAttachment", None, None)),
         Item(p, "", Annot("/Text", None, Some("note")))} : p \in {1, 2}}

ReadDocs == {DocOf(items) : items \in SeqsUpTo(ReadItems, MaxAtts)}

\* The documents the add command starts from.
CliDocs ==
    {DocOf(<<>>),
     DocOf(<<NameTreeItem("x.txt", Some(PlainStream), None)>>),
     DocOf(<<Item(1, "", Annot("/FileAttachment",
                               Some(FileSpec(Some("y.txt"), None,
                                             Some(PlainStream), None)),
                               None))>>)}

---------------------------------------------------------------------------
(* Specifications: one run of one operation from a file system.            *)

Start(docs, others) ==
    /\ fs \in {[p \in PdfPaths |-> IF p = "in.pdf" THEN PdfFile(d) ELSE o] :
                  d \in docs, o \in others}
    /\ pre = fs
    /\ pc = "start"
    /\ call = NoCall
    /\ result = NoResult
    /\ writer = EmptyDoc

\* The API: add_attachment, list_attachments, get_attachment.
Init ==
    Start(AddDocs,
          {Absent, PdfFile(DocOf(<<NameTreeItem("y.txt", Some(PlainStream), None)>>))})

Next ==
    \/ /\ pc = "start"
       /\ \E pdf_path \in PdfPaths, output_path \in PdfPaths,
             files \in SeqsUpTo(DiskFiles \cup {GhostFile}, MaxFiles),
             renames \in RenameMaps :
               AddAttachment(pdf_path, files, output_path, renames)
    \/ WriteDone
    \/ WriteFail
    \/ \E pdf_path \in PdfPaths : ListAttachments(pdf_path)
    \/ \E pdf_path \in PdfPaths, name \in Names : GetAttachment(pdf_path, name)

Spec == Init /\ [][Next]_vars

\* The read side over documents of every shape.
InitRead == Start(ReadDocs, {Absent})

NextRead ==
    \/ ListAttachments("in.pdf")
    \/ \E name \in Names \cup {"u.txt", "unknown"} : GetAttachment("in.pdf", name)

SpecRead == InitRead /\ [][NextRead]_vars

\* The add command.
InitCli == Start(CliDocs, {Absent, PdfFile(DocOf(<<>>))})

NextCli ==
    \/ /\ pc = "start"
       /\ \E pdf \in PdfPaths, output \in OutputOptions, in_place \in BOOLEAN,
             files \in SeqsUpTo(DiskFiles \cup {GhostFile}, MaxFiles) \ {<<>>},
             name \in SeqsUpTo(NameOptions, MaxTokens) :
               CmdAdd(pdf, files, output, in_place, name)
    \/ WriteDone
    \/ WriteFail

SpecCli == InitCli /\ [][NextCli]_vars

\* Chained calls of add_attachment: each call reads either path and writes
\* either path, so a later call starts from what an earlier one wrote, in
\* place or through the other file.

\* The names list_attachments gives for a file, document-level first.
ListedNames(fsys, pdf_path) ==
    LET atts == list_attachments(fsys, pdf_path).atts
    IN [i \in 1..Len(atts) |-> atts[i].name]

Distinct(seq) == \A i, j \in 1..Len(seq) : i # j => seq[i] # seq[j]

\* The source documents whose attachment names are pairwise distinct.
ChainDocs ==
    {d \in AddDocs : Distinct(ListedNames([p \in PdfPaths |-> PdfFile(d)], "in.pdf"))}

\* The caller, back from one call, is about to make the next.
NextCall ==
    /\ pc = "done"
    /\ pc' = "start"
    /\ pre' = fs
    /\ call' = NoCall
    /\ result' = NoResult
    /\ writer' = EmptyDoc
    /\ UNCHANGED fs

\* The calls of a chain: no file, one file, two files with one name, two
\* files with two names; no rename, a rename to a fresh name, and a rename
\* to the other file's name.
ChainFiles ==
    {<<>>,
     <<Path("a", "x.txt")>>,
     <<Path("a", "y.txt")>>,
     <<Path("a", "x.txt"), Path("b", "x.txt")>>,
     <<Path("a", "x.txt"), Path("a", "y.txt")>>}

ChainRenames ==
    {NoRenames,
     [k \in {"x.txt"} |-> "z.txt"],
     [k \in {"x.txt"} |-> "y.txt"]}

InitChain == Start(ChainDocs, {Absent})

NextChain ==
    \/ /\ pc = "start"
       /\ \E pdf_path \in PdfPaths, output_path \in PdfPaths,
             files \in ChainFiles, renames \in ChainRenames :
               AddAttachment(pdf_path, files, output_path, renames)
    \/ WriteDone
    \/ WriteFail
    \/ NextCall

SpecChain == InitChain /\ [][NextChain]_vars

---------------------------------------------------------------------------
(* What the claims are stated over.                                        *)

\* The resolved name of each input file of the call, in input order.
CallNames ==
    [i \in 1..Len(call.files) |->
        IF call.files[i].name \in DOMAIN call.renames
        THEN call.renames[call.files[i].name]
        ELSE call.files[i].name]

\* The pairs of input positions whose resolved names are equal.
CallDuplicates ==
    {ij \in (1..Len(call.files)) \X (1..Len(call.files)) :
        ij[1] < ij[2] /\ CallNames[ij[1]] = CallNames[ij[2]]}

\* The names list_attachments reports for the source as the run found it.
SourceNames ==
    LET atts == list_attachments(pre, call.pdf).atts
    IN {atts[i].name : i \in 1..Len(atts)}

\* The resolved input names that are among the source's names, in input order.
CallCollisions ==
    LET Taken(n) == n \in SourceNames IN SelectSeq(CallNames, Taken)

\* The positions <<page, index>> of a document's /FileAttachment annotations.
FileAnnotPositions(doc) ==
    {pi \in (1..Len(doc.pages)) \X (1..MaxAtts + 1) :
        /\ pi[2] <= Len(doc.pages[pi[1]])
        /\ doc.pages[pi[1]][pi[2]].Subtype = "/FileAttachment"}

\* Page order, then array order within a page.
Precedes(a, b) == a[1] < b[1] \/ (a[1] = b[1] /\ a[2] < b[2])

\* The k-th /FileAttachment annotation position in that order.
FileAnnotAt(doc, k) ==
    CHOOSE a \in FileAnnotPositions(doc) :
        Cardinality({b \in FileAnnotPositions(doc) : Precedes(b, a)}) = k - 1

\* What the enumeration is to yield, position by position: the name-tree
\* pairs in array order, then the /FileAttachment annotations.
Listed(doc) ==
    [k \in 1..(Len(doc.Names) + Cardinality(FileAnnotPositions(doc))) |->
        IF k <= Len(doc.Names)
        THEN [name |-> doc.Names[k].name, page |-> None,
              description |-> OrElse(doc.Names[k].spec.Desc, ""),
              ef |-> doc.Names[k].spec.EF]
        ELSE LET a == FileAnnotAt(doc, k - Len(doc.Names))
                 annot == doc.pages[a[1]][a[2]]
             IN [name |-> AnnotName(annot), page |-> Some(a[1]),
                 description |-> AnnotDescription(annot),
                 ef |-> AnnotEF(annot)]]

\* The stream is there and cannot be decoded.
Undecodable(ef) == ef # None /\ ~get_data(ef[1]).ok

\* The positions of the entries of the read document named as the call asks.
Matches == {k \in DOMAIN Listed(fs[call.pdf].doc) :
               Listed(fs[call.pdf].doc)[k].name = call.name}

DocumentLevel(atts) == LET NoPage(a) == a.page = None IN SelectSeq(atts, NoPage)
PageLevel(atts) == LET OnPage(a) == a.page # None IN SelectSeq(atts, OnPage)

---------------------------------------------------------------------------
(* C1..C10.                                                                *)

\* C1: round trip.  After a successful add_attachment, get_attachment on the
\* result under each input's resolved name returns that input's bytes exactly.
C1_RoundTrip ==
    (pc = "done" /\ call.op = "add" /\ result.err = "none") =>
        \A i \in 1..Len(call.files) :
            LET got == get_attachment(fs, call.out, CallNames[i]) IN
            /\ got.err = "none"
            /\ got.atts # <<>>
            /\ got.atts[1].data = Some(read_bytes(call.files[i]))

\* C2: add_attachment raises the duplicate-input-name error exactly when two
\* input files resolve to the same name, and the error names that name and
\* the two source paths, the later file first.
C2_DuplicateInputs ==
    (call.op = "add" /\ pc # "start") =>
        /\ (result.err = "duplicate") <=> (CallDuplicates # {})
        /\ (result.err = "duplicate") =>
              \E ij \in CallDuplicates :
                  /\ result.names = <<CallNames[ij[2]]>>
                  /\ result.paths = <<call.files[ij[2]], call.files[ij[1]]>>

\* C2 witness: two different files collide through the rename map.
C2_Witness ==
    /\ pc = "done" /\ call.op = "add" /\ result.err = "duplicate"
    /\ result.paths[1].name # result.paths[2].name

\* C3: with pairwise distinct resolved names, add_attachment raises the
\* existing-name error exactly when a resolved name is among the names
\* list_attachments reports for the source, and the error lists every such
\* name, in input order.
C3_ExistingNames ==
    (call.op = "add" /\ pc # "start" /\ CallDuplicates = {}) =>
        /\ (result.err = "exists") <=> (CallCollisions # <<>>)
        /\ (result.err = "exists") => result.names = CallCollisions

\* C3 witness: two inputs collide with the source at once.
C3_Witness ==
    /\ pc = "done" /\ call.op = "add" /\ result.err = "exists"
    /\ Len(result.names) = 2

ValidationErrors ==
    {"duplicate", "exists", "name_format", "name_empty", "unknown_key"}

\* C4: when add ends in a validation failure, the destination path holds
\* (or lacks) exactly what it did before the call.
C4_ValidationBeforeWrite ==
    (result.err \in ValidationErrors) => fs[call.out] = pre[call.out]

\* C4 witness: a failed add whose destination is an existing other file.
C4_Witness ==
    /\ pc = "done" /\ call.op = "cmd_add" /\ result.err = "exists"
    /\ call.out # call.pdf
    /\ pre[call.out].kind = "pdf"

\* C5: during and after an in-place add the destination holds the complete
\* original document or the complete new one.
C5_InPlaceSafe ==
    (call.op = "add" /\ call.out = call.pdf /\ pre[call.pdf].kind = "pdf") =>
        \/ fs[call.out] = pre[call.out]
        \/ pc = "done" /\ fs[call.out] = PdfFile(writer)

\* C6: the outcome of get_attachment is that of the first entry with the
\* requested name: not found without one, CorruptAttachmentError when its
\* stream cannot be decoded, its data otherwise, whatever the other streams.
C6_GetOutcome ==
    (pc = "done" /\ call.op = "get") =>
        LET listed == Listed(fs[call.pdf].doc) IN
        IF Matches = {}
        THEN result.err = "none" /\ result.atts = <<>>
        ELSE LET ef == listed[Min(Matches)].ef IN
             IF Undecodable(ef) THEN result.err = "corrupt"
             ELSE /\ result.err = "none"
                  /\ result.atts # <<>>
                  /\ result.atts[1].data =
                        (IF ef = None THEN None ELSE Some(get_data(ef[1]).data))

\* C7: list_attachments raises nothing whichever streams are undecodable and
\* returns one entry per attachment, in order, with its name and description,
\* its size being the declared one when there is one and unknown for an
\* undecodable stream without one.
C7_ListResilient ==
    (pc = "done" /\ call.op = "list") =>
        LET listed == Listed(fs[call.pdf].doc) IN
        /\ result.err = "none"
        /\ Len(result.atts) = Len(listed)
        /\ \A k \in 1..Len(listed) :
              /\ result.atts[k].name = listed[k].name
              /\ result.atts[k].description = listed[k].description
              /\ (listed[k].ef # None /\ listed[k].ef[1].Size # None)
                    => result.atts[k].size = listed[k].ef[1].Size
              /\ (Undecodable(listed[k].ef) /\ listed[k].ef[1].Size = None)
                    => result.atts[k].size = None

\* C7 witness: a listing of three entries, two of them undecodable, one with
\* a declared size.
C7_Witness ==
    /\ pc = "done" /\ call.op = "list" /\ Len(result.atts) = 3
    /\ \E k, l \in 1..Len(result.atts) :
          LET listed == Listed(fs[call.pdf].doc) IN
          /\ Undecodable(listed[k].ef) /\ listed[k].ef[1].Size = None
          /\ result.atts[k].size = None
          /\ Undecodable(listed[l].ef) /\ listed[l].ef[1].Size # None
          /\ result.atts[l].size # None

\* C8: after a successful add_attachment the document-level listing of the
\* result is that of the source followed by the resolved input names in
\* input order, the page-level listing is that of the source, and the
\* returned count is the number of input files.
C8_AppendInOrder ==
    (pc = "done" /\ call.op = "add" /\ result.err = "none") =>
        LET before == list_attachments(pre, call.pdf).atts
            after == list_attachments(fs, call.out).atts
            old == DocumentLevel(before)
            new == DocumentLevel(after)
        IN /\ Len(new) = Len(old) + Len(call.files)
           /\ SubSeq(new, 1, Len(old)) = old
           /\ \A i \in 1..Len(call.files) : new[Len(old) + i].name = CallNames[i]
           /\ PageLevel(after) = PageLevel(before)
           /\ result.count = Len(call.files)

\* C8 witness: an input whose own name is taken was renamed, and added.
C8_Witness ==
    /\ pc = "done" /\ call.op = "add" /\ result.err = "none"
    /\ Len(call.files) = 2
    /\ \E i \in 1..Len(call.files) : call.files[i].name \in SourceNames

\* C9: list_attachments yields the name-tree entries in array order, then the
\* /FileAttachment annotations by page and array order; get_attachment
\* returns the first entry of that sequence with the requested name.
C9_OrderAndPrecedence ==
    LET listed == Listed(fs[call.pdf].doc) IN
    /\ (pc = "done" /\ call.op = "list") =>
          /\ Len(result.atts) = Len(listed)
          /\ \A k \in 1..Len(listed) :
                /\ result.atts[k].name = listed[k].name
                /\ result.atts[k].page = listed[k].page
    /\ (pc = "done" /\ call.op = "get" /\ Matches # {}
            /\ ~Undecodable(listed[Min(Matches)].ef)) =>
          /\ result.err = "none"
          /\ Len(result.atts) = 1
          /\ result.atts[1].name = call.name
          /\ result.atts[1].page = listed[Min(Matches)].page
          /\ result.atts[1].description = listed[Min(Matches)].description

---------------------------------------------------------------------------
(* C11: rename validation in the add command.                              *)

\* A --name option without a separator, or with an empty half.
Malformed(item) ==
    ~HasColon(item) \/ OldPart(item) = <<>> \/ NewPart(item) = <<>>

SomeMalformed == \E i \in 1..Len(call.tokens) : Malformed(call.tokens[i])

\* The keys of the well-formed options that name no input file.
UnknownKeys ==
    {OldPart(call.tokens[i])[1] : i \in 1..Len(call.tokens)}
        \ {call.files[i].name : i \in 1..Len(call.files)}

\* The PDF and every input file of the command exist.
InputsExist ==
    /\ pre[call.pdf].kind # "absent"
    /\ \A i \in 1..Len(call.files) : is_file(call.files[i])

FormatErrors == {"name_format", "name_empty"}

\* The format error of the first malformed option.
FirstFormatError ==
    LET i == Min({j \in 1..Len(call.tokens) : Malformed(call.tokens[j])})
    IN IF ~HasColon(call.tokens[i]) THEN "name_format" ELSE "name_empty"

\* C11 as claimed: a malformed --name option makes the add command fail
\* with a format error, exit code 1, before any I/O (so whatever the file
\* system holds); well-formed options with a key that is no input file's
\* name make it fail with the unknown-key error, exit code 1; nothing is
\* written in either case.
C11_RenameValidation ==
    (pc = "done" /\ call.op = "cmd_add") =>
        /\ SomeMalformed =>
              /\ result.err \in FormatErrors
              /\ result.exit = 1
              /\ fs = pre
        /\ (~SomeMalformed /\ InputsExist /\ UnknownKeys # {}) =>
              /\ result.err = "unknown_key"
              /\ result.exit = 1
              /\ fs = pre

\* C11 as amended: the existence checks of the PDF and of the input files
\* come first.  When they pass, a malformed --name option makes the command
\* fail with the format error of the first malformed option, and well-formed
\* options with an unknown key make it fail with the unknown-key error that
\* lists those keys in sorted order; when they do not pass, the command
\* fails with the not-found error instead.  Every such run exits with code 1
\* and writes nothing.
C11_RenameValidationAfterExistence ==
    (pc = "done" /\ call.op = "cmd_add"
        /\ (SomeMalformed \/ UnknownKeys # {})) =>
        /\ result.exit = 1
        /\ fs = pre
        /\ ~InputsExist => result.err \in {"pdf_not_found", "file_not_found"}
        /\ (InputsExist /\ SomeMalformed) => result.err = FirstFormatError
        /\ (InputsExist /\ ~SomeMalformed) =>
              /\ result.err = "unknown_key"
              /\ {result.names[i] : i \in 1..Len(result.names)} = UnknownKeys
              /\ \A i, j \in 1..Len(result.names) :
                    i < j => result.names[i] # result.names[j]

\* C11 witness: an existing PDF and input file, one well-formed option with
\* a key that is no input file's name, and the unknown-key error.
C11_Witness ==
    /\ pc = "done"
    /\ call.op = "cmd_add"
    /\ InputsExist
    /\ call.in_place
    /\ call.tokens = <<<<"q.txt", ":", "z.txt">>>>
    /\ result.err = "unknown_key"
    /\ result.names = <<"q.txt">>
    /\ fs = pre

---------------------------------------------------------------------------
(* C12: add leaves its source alone when it writes elsewhere.              *)

\* C12: during and after an add_attachment call whose output path is not
\* the path of the source, whether the call succeeds, is rejected or fails
\* while writing, the source file is what it was before the call and
\* list_attachments of the source gives what it gave before the call.
C12_SourceUnchanged ==
    (call.op = "add" /\ call.out # call.pdf) =>
        /\ fs[call.pdf] = pre[call.pdf]
        /\ list_attachments(fs, call.pdf) = list_attachments(pre, call.pdf)

\* C12 witness: an add from a source that holds an attachment to another
\* path has succeeded and replaced what was at that path; listing the
\* source still succeeds.
C12_Witness ==
    /\ pc = "done"
    /\ call.op = "add"
    /\ call.out # call.pdf
    /\ result.err = "none"
    /\ fs[call.out] # pre[call.out]
    /\ pre[call.out].kind = "pdf"
    /\ list_attachments(fs, call.pdf).err = "none"
    /\ Len(list_attachments(fs, call.pdf).atts) > 0

---------------------------------------------------------------------------
(* C13: adds keep the attachment names distinct.                           *)

\* C13: from a document whose attachment names, document-level and
\* page-level together, are pairwise distinct, after any sequence of
\* add_attachment calls, in place or through the other file, accepted,
\* rejected or failed while writing, the names list_attachments gives for
\* every readable file are pairwise distinct.
C13_NamesStayDistinct ==
    \A p \in PdfPaths :
        Readable(fs, p) => Distinct(ListedNames(fs, p))

\* C13 witness: a second accepted add, in place on the file that an
\* earlier add wrote, has brought that file to three names, one of them
\* page-level.
C13_Witness ==
    /\ pc = "done"
    /\ call.op = "add"
    /\ call.pdf = "out.pdf"
    /\ call.out = "out.pdf"
    /\ result.err = "none"
    /\ Len(ListedNames(pre, "out.pdf")) = 2
    /\ Len(ListedNames(fs, "out.pdf")) = 3
    /\ \E i \in 1..3 : list_attachments(fs, "out.pdf").atts[i].page # None

---------------------------------------------------------------------------
(* C14: the order in which the size of an attachment is resolved.          *)

\* The attachments a finished list or get call returned, each with the
\* position in the enumeration of the entry it was built from.
Returned ==
    IF call.op = "list" /\ result.err = "none"
    THEN {<<result.atts[k], k>> : k \in 1..Len(result.atts)}
    ELSE IF call.op = "get" /\ result.err = "none" /\ result.atts # <<>>
    THEN {<<result.atts[1], Min(Matches)>>}
    ELSE {}

\* C14: every attachment that list_attachments or get_attachment returns
\* has as its size the size its stream declares whenever the stream declares
\* one, whatever the length of the decoded data; otherwise the length of the
\* decoded data; and no size (null) when there is no stream or the stream
\* cannot be decoded and declares no size.
C14_SizeResolution ==
    (pc = "done" /\ call.op \in {"list", "get"}) =>
        \A r \in Returned :
            LET ef == Listed(fs[call.pdf].doc)[r[2]].ef
                size == r[1].size
            IN /\ (ef # None /\ ef[1].Size # None) => size = ef[1].Size
               /\ (ef # None /\ ef[1].Size = None /\ ~Undecodable(ef)) =>
                     size = Some(Len(get_data(ef[1]).data))
               /\ (ef = None \/ (Undecodable(ef) /\ ef[1].Size = None)) =>
                     size = None

\* C14 witness: one listing with a declared size that is not the length of
\* the decoded data, a size taken from the decoded (not the stored) length
\* of a compressed stream, and an entry without a stream and without a size.
C14_Witness ==
    /\ pc = "done" /\ call.op = "list" /\ result.err = "none"
    /\ \E k, l, m \in 1..Len(result.atts) :
          LET listed == Listed(fs[call.pdf].doc) IN
          /\ listed[k].ef # None
          /\ listed[k].ef[1].Size = Some(2)
          /\ get_data(listed[k].ef[1]).data = <<0>>
          /\ result.atts[k].size = Some(2)
          /\ listed[l].ef # None
          /\ listed[l].ef[1].Filter = "/FlateDecode"
          /\ Len(listed[l].ef[1].raw) = 2
          /\ result.atts[l].size = Some(1)
          /\ listed[m].ef = None
          /\ result.atts[m].size = None

====
